---- MODULE Spec2Model ----
(***************************************************************************)
(* Model of src/src/App.js: the upload / validate / encode / submit        *)
(* pipeline of the badminton video analyzer.  The React state of App is    *)
(* the state of the model; each event handler and each continuation of     *)
(* the async function analyzeVideo is one action.  React flushes the       *)
(* state updates of a handler before the next event is dispatched, so a    *)
(* handler (or a continuation between two awaits) is one atomic step.      *)
(*                                                                         *)
(* A JavaScript string that the code inspects (a file name) is a sequence  *)
(* of one-character strings; a string the code only stores or             *)
(* concatenates (a message, a response text) is a TLA+ string.  The        *)
(* leading emoji of the user-visible messages is left out.                 *)
(***************************************************************************)
EXTENDS Integers, Sequences, FiniteSets

VARIABLES
    uploadedFile,    \* useState: the held File, NoFile for null
    videoUrl,        \* useState: the object URL of the preview, NoUrl for null
    isAnalyzing,     \* useState: the busy flag
    analysisResult,  \* useState: the stored result text
    error,           \* useState: the stored error message
    urlCount,        \* object URLs created by URL.createObjectURL so far
    tasks,           \* the invocations of analyzeVideo suspended at an await
    event            \* the last handler or continuation run, and its input

vars == <<uploadedFile, videoUrl, isAnalyzing, analysisResult, error,
          urlCount, tasks, event>>

----------------------------------------------------------------------------
(* Bounds of the model *)

\* segments (joined by ".") of a generated candidate file name
MaxSegs == 2
\* object URLs created in one behaviour (caps the accepted selections)
MaxUrls == 3
\* pending invocations of analyzeVideo
MaxTasks == 2
\* candidates in a response envelope
MaxCandidates == 1
\* parts in a candidate's content
MaxParts == 1

----------------------------------------------------------------------------
(* JavaScript values *)

null == "#null"
undefined == "#undefined"

\* A File object; NoFile stands for null / undefined (no File has size -1).
NoFile == [name |-> <<>>, size |-> -1]

\* useState(null) for videoUrl; an object URL is its serial number and the
\* File it resolves to.
NoUrl == [id |-> 0, file |-> NoFile]

UpperCase == <<"A","B","C","D","E","F","G","H","I","J","K","L","M",
               "N","O","P","Q","R","S","T","U","V","W","X","Y","Z">>
LowerCase == <<"a","b","c","d","e","f","g","h","i","j","k","l","m",
               "n","o","p","q","r","s","t","u","v","w","x","y","z">>

\* String.prototype.toLowerCase, one character
LowerChar(c) ==
    IF \E i \in 1..Len(UpperCase) : UpperCase[i] = c
    THEN LowerCase[CHOOSE i \in 1..Len(UpperCase) : UpperCase[i] = c]
    ELSE c

\* String.prototype.toLowerCase
toLowerCase(s) == [i \in 1..Len(s) |-> LowerChar(s[i])]

\* String.prototype.split(sep) for a one-character separator: the segments
\* between the separators, one more than there are separators.
RECURSIVE split(_, _)
split(s, sep) ==
    IF \A i \in 1..Len(s) : s[i] # sep
    THEN <<s>>
    ELSE LET k == CHOOSE i \in 1..Len(s) :
                      s[i] = sep /\ \A j \in 1..(i-1) : s[j] # sep
         IN  <<SubSeq(s, 1, k-1)>> \o split(SubSeq(s, k+1, Len(s)), sep)

\* Array.prototype.includes
includes(arr, x) == \E i \in 1..Len(arr) : arr[i] = x

----------------------------------------------------------------------------
(* Program constants *)

ALLOWED_EXTENSIONS == << <<"m","p","4">>, <<"m","o","v">>, <<"a","v","i">> >>

MAX_SIZE == 20 * 1024 * 1024

MsgInvalidFile == "Invalid file. Please select a valid video file."
MsgMissingExtension ==
    "File must have an extension. Please upload MP4, MOV, or AVI video."
MsgUnsupportedFormat ==
    "Unsupported file format. Please upload MP4, MOV, or AVI video."
MsgFileTooLarge == "File too large. Please upload a video under 20MB."
MsgNoResult == "No analysis result received from the API."

\* String(v) as a template literal renders it
String(v) == IF v = undefined THEN "undefined"
               ELSE IF v = null THEN "null" ELSE v

MsgAnalysisError(m) == "Error during analysis: " \o String(m)

----------------------------------------------------------------------------
(* Inputs *)

clip == <<"c","l","i","p">>
dot == "."

\* the file names the user picks in the session specification
FileNames ==
    { <<>>,
      clip,
      clip \o <<dot>> \o <<"m","p","4">>,
      clip \o <<dot>> \o <<"M","O","V">>,
      clip \o <<dot>> \o <<"t","x","t">> }

Files == { [name |-> n, size |-> s] : n \in FileNames, s \in {10 * 1024 * 1024} }
         \cup { [name |-> clip \o <<dot>> \o <<"m","p","4">>, size |-> s] :
                    s \in {MAX_SIZE, MAX_SIZE + 1} }

\* the segments candidate names are generated from in the validation
\* specification
Segments ==
    { <<>>, clip,
      <<"m","p","4">>, <<"M","P","4">>, <<"m","o","v">>, <<"M","o","V">>,
      <<"a","v","i">>, <<"A","V","I">>,
      <<"t","x","t">>, <<"m","p","3">>, <<"m","p","4","x">>, <<"m","p">> }

RECURSIVE Join(_)
Join(segs) ==
    IF Len(segs) = 0 THEN <<>>
    ELSE IF Len(segs) = 1 THEN segs[1]
    ELSE segs[1] \o <<dot>> \o Join(Tail(segs))

SegLists == UNION { [1..n -> Segments] : n \in 0..MaxSegs }

CandidateNames == { Join(l) : l \in SegLists }

CandidateSizes == { 0, 1, MAX_SIZE - 1, MAX_SIZE, MAX_SIZE + 1, 2 * MAX_SIZE }

CandidateFiles == { [name |-> n, size |-> s] :
                        n \in CandidateNames, s \in CandidateSizes }

\* the texts a response part carries
Texts == { "X", "Analysis..." }

\* A response body (response.data).  A property that may be missing has a
\* flag beside it: { } is [hasCandidates |-> FALSE], {candidates: [..]} is
\* [hasCandidates |-> TRUE, candidates |-> <<..>>]; a part without a text
\* has text = undefined.
Parts == [text : Texts \cup {undefined}]

PartLists == UNION { [1..n -> Parts] : n \in 0..MaxParts }

NoContent == [hasParts |-> FALSE, parts |-> <<>>]

Contents == {NoContent} \cup { [hasParts |-> TRUE, parts |-> l] : l \in PartLists }

Candidates == { [hasContent |-> FALSE, content |-> NoContent] }
              \cup { [hasContent |-> TRUE, content |-> c] : c \in Contents }

CandidateLists == UNION { [1..n -> Candidates] : n \in 0..MaxCandidates }

NoEnvelope == [hasCandidates |-> FALSE, candidates |-> <<>>]

Envelopes == {NoEnvelope}
             \cup { [hasCandidates |-> TRUE, candidates |-> l] : l \in CandidateLists }

\* The error a rejected axios call carries: err.response.data.error.message
\* (undefined when any link of that chain is missing) and err.message.
AxiosErrors == [bodyMessage : {undefined, "", "quota exceeded"},
                message : {"Network Error"}]

\* the ProgressEvent a failed FileReader hands to onerror: it has neither
\* a response nor a message
ProgressEvent == [bodyMessage |-> undefined, message |-> undefined]

\* the TypeError of reading property prop of undefined
TypeError(prop) ==
    [bodyMessage |-> undefined,
     message |-> "Cannot read properties of undefined (reading '" \o prop \o "')"]

\* candidates[0].content.parts[0].text of a response body, undefined when
\* the body lacks that shape
ShapeText(data) ==
    IF /\ data.hasCandidates
       /\ Len(data.candidates) >= 1
       /\ data.candidates[1].hasContent
       /\ data.candidates[1].content.hasParts
       /\ Len(data.candidates[1].content.parts) >= 1
    THEN data.candidates[1].content.parts[1].text
    ELSE undefined

\* What the last handler or continuation that ran was given: the handler,
\* the file it worked on, the text of the response it read, and whether no
\* selection was handled since the attempt started.
Event(op, file, text, clean) ==
    [op |-> op, file |-> file, text |-> text, clean |-> clean]

----------------------------------------------------------------------------
(* handleFileUpload *)

\* tasks pending while a selection with a file is handled have had a
\* selection interleaved
Interleave(ts) == [i \in 1..Len(ts) |-> [ts[i] EXCEPT !.clean = FALSE]]

\* a rejection that also drops the held file, its preview and the result
Reject_ClearsSession(file, msg) ==
    /\ error' = msg
    /\ uploadedFile' = NoFile
    /\ videoUrl' = NoUrl
    /\ analysisResult' = null
    /\ tasks' = Interleave(tasks)
    /\ event' = Event("select", file, undefined, TRUE)
    /\ UNCHANGED <<isAnalyzing, urlCount>>

Reject(file, msg) ==
    /\ error' = msg
    /\ tasks' = Interleave(tasks)
    /\ event' = Event("select", file, undefined, TRUE)
    /\ UNCHANGED <<uploadedFile, videoUrl, isAnalyzing, analysisResult, urlCount>>

\* Accept without setError(null)
Accept_KeepsError(file) ==
    /\ uploadedFile' = file
    /\ videoUrl' = [id |-> urlCount + 1, file |-> file]
    /\ urlCount' = urlCount + 1
    /\ analysisResult' = null
    /\ tasks' = Interleave(tasks)
    /\ event' = Event("select", file, undefined, TRUE)
    /\ UNCHANGED <<isAnalyzing, error>>

Accept(file) ==
    /\ uploadedFile' = file
    /\ videoUrl' = [id |-> urlCount + 1, file |-> file]
    /\ urlCount' = urlCount + 1
    /\ error' = null
    /\ analysisResult' = null
    /\ tasks' = Interleave(tasks)
    /\ event' = Event("select", file, undefined, TRUE)
    /\ UNCHANGED isAnalyzing

\* handleFileUpload with the size check before the extension checks
handleFileUpload_SizeFirst(file) ==
    IF file = NoFile
    THEN /\ event' = Event("noFile", NoFile, undefined, TRUE)
         /\ UNCHANGED <<uploadedFile, videoUrl, isAnalyzing, analysisResult,
                        error, urlCount, tasks>>
    ELSE IF file.name = <<>>
    THEN Reject(file, MsgInvalidFile)
    ELSE IF file.size > MAX_SIZE
    THEN Reject(file, MsgFileTooLarge)
    ELSE LET fileNameParts == split(file.name, dot) IN
         IF Len(fileNameParts) < 2
         THEN Reject(file, MsgMissingExtension)
         ELSE LET fileExt == toLowerCase(fileNameParts[Len(fileNameParts)]) IN
              IF ~includes(ALLOWED_EXTENSIONS, fileExt)
              THEN Reject(file, MsgUnsupportedFormat)
              ELSE Accept(file)

\* handleFileUpload with file.size >= 20 * 1024 * 1024 as the size check
handleFileUpload_SizeOffByOne(file) ==
    IF file = NoFile
    THEN /\ event' = Event("noFile", NoFile, undefined, TRUE)
         /\ UNCHANGED <<uploadedFile, videoUrl, isAnalyzing, analysisResult,
                        error, urlCount, tasks>>
    ELSE IF file.name = <<>>
    THEN Reject(file, MsgInvalidFile)
    ELSE LET fileNameParts == split(file.name, dot) IN
         IF Len(fileNameParts) < 2
         THEN Reject(file, MsgMissingExtension)
         ELSE LET fileExt == toLowerCase(fileNameParts[Len(fileNameParts)]) IN
              IF ~includes(ALLOWED_EXTENSIONS, fileExt)
              THEN Reject(file, MsgUnsupportedFormat)
              ELSE IF file.size >= MAX_SIZE
              THEN Reject(file, MsgFileTooLarge)
              ELSE Accept(file)

\* handleFileUpload without the check of the extension against
\* ALLOWED_EXTENSIONS
handleFileUpload_AnyExtension(file) ==
    IF file = NoFile
    THEN /\ event' = Event("noFile", NoFile, undefined, TRUE)
         /\ UNCHANGED <<uploadedFile, videoUrl, isAnalyzing, analysisResult,
                        error, urlCount, tasks>>
    ELSE IF file.name = <<>>
    THEN Reject(file, MsgInvalidFile)
    ELSE LET fileNameParts == split(file.name, dot) IN
         IF Len(fileNameParts) < 2
         THEN Reject(file, MsgMissingExtension)
         ELSE IF file.size > MAX_SIZE
         THEN Reject(file, MsgFileTooLarge)
         ELSE Accept(file)

handleFileUpload(file) ==
    IF file = NoFile
    THEN /\ event' = Event("noFile", NoFile, undefined, TRUE)
         /\ UNCHANGED <<uploadedFile, videoUrl, isAnalyzing, analysisResult,
                        error, urlCount, tasks>>
    ELSE IF file.name = <<>>
    THEN Reject(file, MsgInvalidFile)
    ELSE LET fileNameParts == split(file.name, dot) IN
         IF Len(fileNameParts) < 2
         THEN Reject(file, MsgMissingExtension)
         ELSE LET fileExt == toLowerCase(fileNameParts[Len(fileNameParts)]) IN
              IF ~includes(ALLOWED_EXTENSIONS, fileExt)
              THEN Reject(file, MsgUnsupportedFormat)
              ELSE IF file.size > MAX_SIZE
              THEN Reject(file, MsgFileTooLarge)
              ELSE Accept(file)

\* The object URLs that are live (created and not revoked): every URL that
\* URL.createObjectURL has handed out, since nothing calls
\* URL.revokeObjectURL.
LiveUrls == 1..urlCount

----------------------------------------------------------------------------
(* analyzeVideo *)

\* an invocation of analyzeVideo suspended at an await: the uploadedFile of
\* its closure, the await it is at, the media type of its request, and the
\* number of requests it has sent with axios.post
Task(file, pc, mime) ==
    [file |-> file, pc |-> pc, mime_type |-> mime, requests |-> 0,
     clean |-> TRUE]

RemoveAt(s, i) == SubSeq(s, 1, i-1) \o SubSeq(s, i+1, Len(s))

\* the analyze button without its disabled attribute
AnalyzeButtonEnabled_NeverDisabled == uploadedFile # NoFile

\* the analyze button is rendered when a file is held and is disabled
\* while isAnalyzing
AnalyzeButtonEnabled == uploadedFile # NoFile /\ ~isAnalyzing

\* analyzeVideo without its "if (!uploadedFile) return"
analyzeVideo_NoGuard ==
    /\ isAnalyzing' = TRUE
    /\ error' = null
    /\ tasks' = Append(tasks, Task(uploadedFile, "reading", <<>>))
    /\ event' = Event("submit", uploadedFile, undefined, TRUE)
    /\ UNCHANGED <<uploadedFile, videoUrl, analysisResult, urlCount>>

\* analyzeVideo without setError(null)
analyzeVideo_KeepsError ==
    IF uploadedFile = NoFile
    THEN /\ event' = Event("submitNoFile", NoFile, undefined, TRUE)
         /\ UNCHANGED <<uploadedFile, videoUrl, isAnalyzing, analysisResult,
                        error, urlCount, tasks>>
    ELSE /\ isAnalyzing' = TRUE
         /\ tasks' = Append(tasks, Task(uploadedFile, "reading", <<>>))
         /\ event' = Event("submit", uploadedFile, undefined, TRUE)
         /\ UNCHANGED <<uploadedFile, videoUrl, analysisResult, urlCount, error>>

\* analyzeVideo up to its first await: fileToBase64 has started the read
analyzeVideo ==
    IF uploadedFile = NoFile
    THEN /\ event' = Event("submitNoFile", NoFile, undefined, TRUE)
         /\ UNCHANGED <<uploadedFile, videoUrl, isAnalyzing, analysisResult,
                        error, urlCount, tasks>>
    ELSE /\ isAnalyzing' = TRUE
         /\ error' = null
         /\ tasks' = Append(tasks, Task(uploadedFile, "reading", <<>>))
         /\ event' = Event("submit", uploadedFile, undefined, TRUE)
         /\ UNCHANGED <<uploadedFile, videoUrl, analysisResult, urlCount>>

\* the media type of the request: video/<extension>
MimeType(file) ==
    LET fileNameParts == split(file.name, dot)
        fileExt == IF Len(fileNameParts) >= 2
                   THEN toLowerCase(fileNameParts[Len(fileNameParts)])
                   ELSE <<"m","p","4">>
    IN  <<"v","i","d","e","o","/">> \o fileExt

\* reader.onload: the await of fileToBase64 resumes, the payload is built
\* and axios.post sends the request
ReaderLoad(i) ==
    /\ tasks[i].pc = "reading"
    /\ tasks' = [tasks EXCEPT ![i].pc = "posting",
                              ![i].mime_type = MimeType(tasks[i].file),
                              ![i].requests = @ + 1]
    /\ event' = Event("load", tasks[i].file, undefined, tasks[i].clean)
    /\ UNCHANGED <<uploadedFile, videoUrl, isAnalyzing, analysisResult,
                   error, urlCount>>

\* a JavaScript value used as a condition
Truthy(v) == v \notin {undefined, null, ""}

\* the catch block with err.message || err.response?.data?.error?.message
Catch_TransportFirst(i, ev, err) ==
    /\ error' = MsgAnalysisError(IF Truthy(err.message)
                                 THEN err.message ELSE err.bodyMessage)
    /\ isAnalyzing' = FALSE
    /\ tasks' = RemoveAt(tasks, i)
    /\ event' = ev
    /\ UNCHANGED <<uploadedFile, videoUrl, analysisResult, urlCount>>

\* the catch block without the finally block
Catch_NoFinally(i, ev, err) ==
    /\ error' = MsgAnalysisError(IF Truthy(err.bodyMessage)
                                 THEN err.bodyMessage ELSE err.message)
    /\ tasks' = RemoveAt(tasks, i)
    /\ event' = ev
    /\ UNCHANGED <<uploadedFile, videoUrl, analysisResult, urlCount, isAnalyzing>>

\* the catch and finally blocks
Catch(i, ev, err) ==
    /\ error' = MsgAnalysisError(IF Truthy(err.bodyMessage)
                                 THEN err.bodyMessage ELSE err.message)
    /\ isAnalyzing' = FALSE
    /\ tasks' = RemoveAt(tasks, i)
    /\ event' = ev
    /\ UNCHANGED <<uploadedFile, videoUrl, analysisResult, urlCount>>

\* fileToBase64 without reader.onerror: the promise never settles and the
\* invocation stays at its await
ReaderError_NoHandler(i) ==
    /\ tasks[i].pc = "reading"
    /\ tasks' = [tasks EXCEPT ![i].pc = "hung"]
    /\ event' = Event("readError", tasks[i].file, undefined, tasks[i].clean)
    /\ UNCHANGED <<uploadedFile, videoUrl, isAnalyzing, analysisResult,
                   error, urlCount>>

\* reader.onerror: the promise of fileToBase64 rejects with the event
ReaderError(i) ==
    /\ tasks[i].pc = "reading"
    /\ Catch(i, Event("readError", tasks[i].file, undefined, tasks[i].clean),
             ProgressEvent)

\* a rejected axios.post that is sent once more before it is given up
RequestError_Retry(i, err) ==
    /\ tasks[i].pc = "posting"
    /\ IF tasks[i].requests < 2
       THEN /\ tasks' = [tasks EXCEPT ![i].requests = @ + 1]
            /\ event' = Event("load", tasks[i].file, undefined, tasks[i].clean)
            /\ UNCHANGED <<uploadedFile, videoUrl, isAnalyzing, analysisResult,
                           error, urlCount>>
       ELSE Catch(i, Event("requestError", tasks[i].file, undefined,
                           tasks[i].clean), err)

\* axios.post rejects
RequestError(i, err) ==
    /\ tasks[i].pc = "posting"
    /\ Catch(i, Event("requestError", tasks[i].file, undefined, tasks[i].clean),
             err)

\* The statements after the await of axios.post, as what they end in:
\* "result" (setAnalysisResult(text)), "noResult" (the else branch) or
\* "throw" (the exception err, which the catch block receives).
Outcome(kind, text, err) == [kind |-> kind, text |-> text, err |-> err]

ReadResponse(data) ==
    IF data.hasCandidates
    THEN IF Len(data.candidates) = 0
         THEN Outcome("throw", undefined, TypeError("content"))
         ELSE IF data.candidates[1].hasContent
         THEN LET content == data.candidates[1].content IN
              IF ~content.hasParts
              THEN Outcome("throw", undefined, TypeError("0"))
              ELSE IF Len(content.parts) = 0
              THEN Outcome("throw", undefined, TypeError("text"))
              ELSE Outcome("result", content.parts[1].text, ProgressEvent)
         ELSE Outcome("noResult", undefined, ProgressEvent)
    ELSE Outcome("noResult", undefined, ProgressEvent)

\* axios.post resolves with a response whose body is data
Response(i, data) ==
    /\ tasks[i].pc = "posting"
    /\ LET out == ReadResponse(data)
           ev == Event("response", tasks[i].file, ShapeText(data), tasks[i].clean)
       IN  IF out.kind = "throw"
           THEN Catch(i, ev, out.err)
           ELSE /\ analysisResult' = IF out.kind = "result"
                                     THEN out.text ELSE analysisResult
                /\ error' = IF out.kind = "noResult" THEN MsgNoResult ELSE error
                /\ isAnalyzing' = FALSE
                /\ tasks' = RemoveAt(tasks, i)
                /\ event' = ev
                /\ UNCHANGED <<uploadedFile, videoUrl, urlCount>>

----------------------------------------------------------------------------
(* Specifications *)

Init ==
    /\ uploadedFile = NoFile
    /\ videoUrl = NoUrl
    /\ isAnalyzing = FALSE
    /\ analysisResult = null
    /\ error = null
    /\ urlCount = 0
    /\ tasks = <<>>
    /\ event = Event("init", NoFile, undefined, TRUE)

\* the user picks a file (or dismisses the picker) in the file input
SelectFile ==
    \E file \in Files \cup {NoFile} :
        /\ handleFileUpload(file)
        /\ urlCount' <= MaxUrls

\* the user clicks the analyze button
ClickAnalyze ==
    /\ AnalyzeButtonEnabled
    /\ Len(tasks) < MaxTasks
    /\ analyzeVideo

Next ==
    \/ SelectFile
    \/ ClickAnalyze
    \/ \E i \in 1..Len(tasks) : ReaderLoad(i)
    \/ \E i \in 1..Len(tasks) : ReaderError(i)
    \/ \E i \in 1..Len(tasks) : \E data \in Envelopes : Response(i, data)
    \/ \E i \in 1..Len(tasks) : \E err \in AxiosErrors : RequestError(i, err)

Spec == Init /\ [][Next]_vars

\* the file read loads or errors, the network call resolves or rejects
Settle ==
    \E i \in 1..Len(tasks) :
        \/ ReaderLoad(i)
        \/ ReaderError(i)
        \/ \E data \in Envelopes : Response(i, data)
        \/ \E err \in AxiosErrors : RequestError(i, err)

\* Spec, with every pending read and request eventually settling
SpecLive == Init /\ [][Next]_vars /\ WF_vars(Settle)

\* analyzeVideo is invoked while no attempt is pending, whether or not a
\* file is held (the button that calls it is rendered only with a file)
InvokeAnalyze ==
    /\ ~isAnalyzing
    /\ Len(tasks) < MaxTasks
    /\ analyzeVideo

NextSubmit ==
    \/ SelectFile
    \/ InvokeAnalyze
    \/ \E i \in 1..Len(tasks) : ReaderLoad(i)
    \/ \E i \in 1..Len(tasks) : ReaderError(i)
    \/ \E i \in 1..Len(tasks) : \E data \in Envelopes : Response(i, data)
    \/ \E i \in 1..Len(tasks) : \E err \in AxiosErrors : RequestError(i, err)

\* the session with submit() triggered from any idle state
SpecSubmit == Init /\ [][NextSubmit]_vars

\* The validation specification: one selection event for each candidate
\* file, handled from the state after construction.
InitValidate ==
    /\ uploadedFile = NoFile
    /\ videoUrl = NoUrl
    /\ isAnalyzing = FALSE
    /\ analysisResult = null
    /\ error = null
    /\ urlCount = 0
    /\ tasks = <<>>
    /\ \E file \in CandidateFiles : event = Event("pending", file, undefined, TRUE)

ValidateCandidate ==
    /\ event.op = "pending"
    /\ handleFileUpload(event.file)

NextValidate == ValidateCandidate

SpecValidate == InitValidate /\ [][NextValidate]_vars

----------------------------------------------------------------------------
(* The validation rules as the specification states them *)

HasDot(name) == \E i \in 1..Len(name) : name[i] = dot

\* the part of a name after its last "."
FinalSegment(name) ==
    LET k == CHOOSE i \in 1..Len(name) :
                 name[i] = dot /\ \A j \in (i+1)..Len(name) : name[j] # dot
    IN  SubSeq(name, k+1, Len(name))

RecognizedExtensions == { <<"m","p","4">>, <<"m","o","v">>, <<"a","v","i">> }

NamePasses(file) ==
    /\ file.name # <<>>
    /\ HasDot(file.name)
    /\ toLowerCase(FinalSegment(file.name)) \in RecognizedExtensions

\* the message of the first failing rule, null when no rule fails
FirstFailingRule(file) ==
    IF file.name = <<>> THEN MsgInvalidFile
    ELSE IF ~HasDot(file.name) THEN MsgMissingExtension
    ELSE IF toLowerCase(FinalSegment(file.name)) \notin RecognizedExtensions
    THEN MsgUnsupportedFormat
    ELSE IF file.size > 20 * 1024 * 1024 THEN MsgFileTooLarge
    ELSE null

Rejected(file) == FirstFailingRule(file) # null

SelectionHandled == event.op = "select"

----------------------------------------------------------------------------
(* Claims *)

\* C1: in every reachable state at most one invocation of analyzeVideo is
\* pending (reading the file or awaiting the response), so at most one
\* request is in flight: a click while isAnalyzing starts no second one.
C1_AtMostOneInFlight == Len(tasks) <= 1

\* a selection was handled while the one request was in flight
C1_Witness ==
    /\ Len(tasks) = 1
    /\ tasks[1].pc = "posting"
    /\ isAnalyzing
    /\ SelectionHandled

\* C2 (as claimed): the stored result and the stored error are not both
\* set once no submission is in flight, because every error that is
\* recorded replaces any stored result: a step that records a new error and
\* leaves no submission in flight leaves no result text stored.
C2_ErrorReplacesResult ==
    [][(Len(tasks') = 0 /\ error' # null /\ error' # error)
          => analysisResult' \notin Texts]_vars

\* C3: isAnalyzing is true exactly while an invocation of analyzeVideo is
\* pending, and handling a selection (accepted, rejected or without a file)
\* never changes it.
C3_BusyIffInFlight ==
    /\ [](isAnalyzing <=> Len(tasks) > 0)
    /\ [][event'.op \in {"select", "noFile"} => isAnalyzing' = isAnalyzing]_vars

\* an attempt has failed and isAnalyzing is false again
C3_Witness ==
    /\ event.op \in {"readError", "requestError"}
    /\ ~isAnalyzing
    /\ Len(tasks) = 0

\* C4 (as claimed): after a rejected selection the session holds no file
\* and no preview handle, and an error message is set.
C4_RejectedHoldsNoFile ==
    (SelectionHandled /\ Rejected(event.file))
        => (uploadedFile = NoFile /\ videoUrl = NoUrl /\ error # null)

\* C5: right after an accepted selection the held file is the selected
\* file, the preview handle is an object URL of that file, and the stored
\* error and the stored result are null.
C5_AcceptedSelection ==
    (SelectionHandled /\ ~Rejected(event.file))
        => /\ uploadedFile = event.file
           /\ videoUrl # NoUrl
           /\ videoUrl.file = event.file
           /\ error = null
           /\ analysisResult = null

\* a file is accepted while another file is held and its attempt is pending
C5_Witness ==
    /\ SelectionHandled
    /\ ~Rejected(event.file)
    /\ urlCount >= 2
    /\ isAnalyzing
    /\ uploadedFile = event.file

\* C6 (as claimed): a response whose body lacks
\* candidates[0].content.parts[0].text ends the attempt with the "no
\* analysis result" error stored and with no result stored by it.
C6_LacksShapeIsEmptyResult ==
    [][(event'.op = "response" /\ event'.text = undefined)
          => (error' = MsgNoResult /\ analysisResult' = analysisResult)]_vars

\* C7: when an attempt with no selection handled since it started reads a
\* response carrying candidates[0].content.parts[0].text = X, isAnalyzing
\* is false, the stored result is X and the stored error is null.
C7_SuccessRecordsText ==
    (event.op = "response" /\ event.text # undefined /\ event.clean)
        => (~isAnalyzing /\ analysisResult = event.text /\ error = null)

\* an attempt with no selection handled since its start has read a text
C7_Witness ==
    /\ event.op = "response"
    /\ event.clean
    /\ event.text = "Analysis..."
    /\ analysisResult = "Analysis..."
    /\ uploadedFile = event.file

\* C8: when every pending read and request settles, isAnalyzing always
\* becomes false again, and a failed read ends the attempt with an error
\* stored.
C8_EveryAttemptFinishes ==
    isAnalyzing ~> (/\ ~isAnalyzing
                    /\ Len(tasks) = 0
                    /\ event.op = "readError"
                          => error = MsgAnalysisError(undefined))

\* a read has failed
C8_Witness ==
    /\ event.op = "readError"
    /\ error = MsgAnalysisError(undefined)
    /\ ~isAnalyzing

\* C9: the selection of a candidate file stores the message of the first
\* failing rule (no name, no ".", final segment not mp4/mov/avi in any
\* case, size over the limit), and holds the file exactly when no rule
\* fails.
C9_FirstFailingRule ==
    SelectionHandled
        => /\ error = FirstFailingRule(event.file)
           /\ (uploadedFile = event.file) <=> ~Rejected(event.file)

\* a file of unsupported format and over the limit reports the format
C9_Witness ==
    /\ SelectionHandled
    /\ event.file.size > MAX_SIZE
    /\ HasDot(event.file.name)
    /\ FinalSegment(event.file.name) = <<"t","x","t">>
    /\ error = MsgUnsupportedFormat

\* C10: for a name that passes the name and extension rules, a size of
\* exactly 20 * 2^20 bytes is accepted and a size of 20 * 2^20 + 1 bytes is
\* rejected as too large.
C10_SizeCeiling ==
    (SelectionHandled /\ NamePasses(event.file))
        => /\ event.file.size = 20 * 1024 * 1024
                => (uploadedFile = event.file /\ error = null)
           /\ event.file.size = 20 * 1024 * 1024 + 1
                => (uploadedFile # event.file /\ error = MsgFileTooLarge)

\* an upper-case extension at exactly the limit is accepted
C10_Witness ==
    /\ SelectionHandled
    /\ event.file.size = 20 * 1024 * 1024
    /\ HasDot(event.file.name)
    /\ FinalSegment(event.file.name) = <<"M","P","4">>
    /\ uploadedFile = event.file

\* the message the specification asks of a failed request: the structured
\* message of the remote error body when the body carries a (non-empty)
\* one, the transport-level message otherwise
RequestFailedMessage(err) ==
    IF err.bodyMessage # undefined /\ err.bodyMessage # ""
    THEN err.bodyMessage
    ELSE err.message

\* C11: when the network call fails, the stored error is built from the
\* structured message of the remote error body whenever the body carries
\* one and from the transport-level message only when it does not, and
\* the step stores no result.
C11_RequestFailedMessage ==
    [][\A i \in 1..Len(tasks) : \A err \in AxiosErrors :
          RequestError(i, err)
              => /\ error' = "Error during analysis: " \o RequestFailedMessage(err)
                 /\ analysisResult' = analysisResult]_vars

\* a request failed with a structured body and its message is stored
C11_Witness ==
    /\ event.op = "requestError"
    /\ error = "Error during analysis: quota exceeded"
    /\ ~isAnalyzing

\* C12 (as claimed): after any sequence of selections at most one preview
\* handle is live, an accepted selection releasing the handle it
\* supersedes.
C12_AtMostOneLiveUrl == Cardinality(LiveUrls) <= 1

\* C13: analyzeVideo invoked with no file held changes nothing (busy,
\* error, result, file, preview) and starts no read or request; invoked
\* with a file held and isAnalyzing false it sets isAnalyzing, and when it
\* has done so the new attempt has only started its read: no request of
\* it is out.
C13_SubmitNeedsFile ==
    [][event'.op \in {"submit", "submitNoFile"}
          => IF uploadedFile = NoFile
             THEN UNCHANGED <<isAnalyzing, error, analysisResult,
                              uploadedFile, videoUrl, tasks>>
             ELSE /\ isAnalyzing'
                  /\ Len(tasks') = Len(tasks) + 1
                  /\ SubSeq(tasks', 1, Len(tasks)) = tasks
                  /\ tasks'[Len(tasks')].pc = "reading"
                  /\ tasks'[Len(tasks')].file = uploadedFile
                  /\ UNCHANGED <<uploadedFile, videoUrl>>]_vars

\* analyzeVideo was invoked with no file held and left the error standing
C13_Witness ==
    /\ event.op = "submitNoFile"
    /\ uploadedFile = NoFile
    /\ error # null
    /\ ~isAnalyzing
    /\ Len(tasks) = 0

\* C14: an invocation of analyzeVideo sends at most one request: none
\* while it reads the file, one once the read has loaded; it ends with no
\* request sent when the read fails and with exactly one sent otherwise;
\* and the step that ends it (a failure and an empty result included)
\* only removes it, so nothing of it is left to send again.
C14_OneRequestPerSubmission ==
    /\ [](\A i \in 1..Len(tasks) :
             /\ tasks[i].requests <= 1
             /\ tasks[i].requests = 1 <=> tasks[i].pc = "posting")
    /\ [][event'.op \in {"readError", "requestError", "response"}
            => \E i \in 1..Len(tasks) :
                  /\ tasks' = RemoveAt(tasks, i)
                  /\ tasks[i].requests = IF event'.op = "readError" THEN 0 ELSE 1]_vars

\* an attempt has ended in an empty result and nothing is pending
C14_Witness ==
    /\ event.op = "response"
    /\ error = MsgNoResult
    /\ Len(tasks) = 0
    /\ ~isAnalyzing

AttemptEnded == event.op \in {"readError", "requestError", "response"}

\* C15 (as claimed): the stored result and error belong to the held file:
\* when an attempt ends whose file is not the file now held, the step
\* stores neither a result nor an error.
C15_StaleAttemptStoresNothing ==
    [][(AttemptEnded' /\ event'.file # uploadedFile)
          => (analysisResult' = analysisResult /\ error' = error)]_vars

\* C16: the held file, when there is one, passes every rule of the
\* validator; so does the file of every pending attempt, whose name has
\* an extension (the fallback to mp4 is not taken), and the media type of
\* every request sent is video/ followed by that extension lower-cased,
\* one of mp4, mov, avi.
C16_HeldFileIsValid ==
    /\ uploadedFile # NoFile
          => /\ toLowerCase(FinalSegment(uploadedFile.name)) \in RecognizedExtensions
             /\ uploadedFile.size <= 20 * 1024 * 1024
             /\ ~Rejected(uploadedFile)
    /\ \A i \in 1..Len(tasks) :
          /\ HasDot(tasks[i].file.name)
          /\ tasks[i].pc = "posting"
                => /\ tasks[i].mime_type
                        = <<"v","i","d","e","o","/">>
                              \o toLowerCase(FinalSegment(tasks[i].file.name))
                   /\ toLowerCase(FinalSegment(tasks[i].file.name))
                        \in RecognizedExtensions

\* the request for an upper-case .MOV file is out as video/mov
C16_Witness ==
    /\ Len(tasks) = 1
    /\ tasks[1].pc = "posting"
    /\ FinalSegment(tasks[1].file.name) = <<"M","O","V">>
    /\ tasks[1].mime_type = <<"v","i","d","e","o","/","m","o","v">>

\* C17: a rejected selection changes only the stored error (the held
\* file, the preview handle, the stored result and isAnalyzing stay, and
\* no attempt is started or ended); a selection event without a file
\* changes nothing, the error included.
C17_RejectionChangesOnlyError ==
    [][/\ (event'.op = "select" /\ Rejected(event'.file))
            => /\ UNCHANGED <<uploadedFile, videoUrl, analysisResult,
                              isAnalyzing, urlCount>>
               /\ error' = FirstFailingRule(event'.file)
               /\ Len(tasks') = Len(tasks)
       /\ event'.op = "noFile"
            => UNCHANGED <<uploadedFile, videoUrl, analysisResult,
                           isAnalyzing, urlCount, error, tasks>>]_vars

\* a selection was rejected while a file and its result are held
C17_Witness ==
    /\ SelectionHandled
    /\ Rejected(event.file)
    /\ uploadedFile # NoFile
    /\ videoUrl.file = uploadedFile
    /\ analysisResult \in Texts
    /\ error = FirstFailingRule(event.file)

====
